---- MODULE Spec2Model ----
(***************************************************************************)
(* Model of sales/integration.py: the InvoiceParser event handlers, the    *)
(* CODE_NATURE table and the import_invoices loop, together with the       *)
(* Invoice model's field validation (sales/models.py) that full_clean()    *)
(* runs before every save.                                                 *)
(*                                                                         *)
(* Text is a sequence of one-character strings, so that slicing, int(),    *)
(* float(), upper() and isoformat() are computed rather than assumed.      *)
(* A Python value that may be None is <<>> (None) or <<x>> (the value x).  *)
(***************************************************************************)
EXTENDS Integers, Sequences, FiniteSets, TLC

VARIABLES
    pc,        \* position of import_invoices: "idle", "loop", "done", "failed"
    v,         \* the in-progress Invoice: None or Some(record)
    sink,      \* the Invoice table: the set of stored records (number is the key)
    sink0,     \* the Invoice table as it was when transaction.atomic() was entered
    fetched,   \* the rows the cursor v_result has delivered so far, in order
    trace,     \* per delivered row: what the loop body did with it (ord: the
               \* ordinal of the invoice created for the row, or in progress)
    savedRecs, \* the records passed to save() in this run, in order
    error,     \* the exception that ended the run, "" when none
    parser,    \* an InvoiceParser: [result, track, tag]
    open,      \* tracked sections whose start tag was seen and not ended since
    cur,       \* the element whose start tag directly encloses the next data
    wrote,     \* the last parser event, the result slots it changed, the event count
    returned,  \* what import_invoices returned to its caller: None, or Some(value)
    docRow,    \* a row under study, its document handed to InvoiceParser.parse
    parsedDoc  \* None, or Some(outcome of InvoiceParser.parse on that document)

importVars == <<pc, v, sink, sink0, fetched, trace, savedRecs, error, returned>>
parserVars == <<parser, open, cur, wrote>>
docVars == <<docRow, parsedDoc>>
vars == <<pc, v, sink, sink0, fetched, trace, savedRecs, error, returned,
          parser, open, cur, wrote, docRow, parsedDoc>>

None == <<>>
Some(x) == <<x>>

Min(a, b) == IF a < b THEN a ELSE b

(***************************************************************************)
(* Text helpers                                                            *)
(***************************************************************************)
Digits == <<"0", "1", "2", "3", "4", "5", "6", "7", "8", "9">>

IsDigit(c) == \E i \in 1..10 : Digits[i] = c

DigitVal(c) == (CHOOSE i \in 1..10 : Digits[i] = c) - 1

\* Python s[0:n]
Slice0(s, n) == SubSeq(s, 1, Min(n, Len(s)))

AllDigits(s) == Len(s) > 0 /\ \A i \in 1..Len(s) : IsDigit(s[i])

RECURSIVE DigitsValue(_)
DigitsValue(s) ==
    IF Len(s) = 0 THEN 0
    ELSE 10 * DigitsValue(SubSeq(s, 1, Len(s) - 1)) + DigitVal(s[Len(s)])

(***************************************************************************)
(* InvoiceParser                                                           *)
(***************************************************************************)
TrackTags == {"infnfe", "ide", "dest", "det", "prod", "total", "icmstot"}

\* InvoiceParser.reset
reset ==
    [result |-> <<>>,
     track  |-> [k \in TrackTags |-> FALSE],
     tag    |-> None]

\* InvoiceParser.handle_starttag
handle_starttag(p, tag) ==
    [p EXCEPT !.tag = Some(tag),
              !.track = IF tag \in TrackTags THEN [@ EXCEPT ![tag] = TRUE] ELSE @]

\* handle_endtag that resets the current tag but leaves the section flagged
handle_endtag_KeepsTrack(p, tag) ==
    [p EXCEPT !.tag = None]

\* InvoiceParser.handle_endtag
handle_endtag(p, tag) ==
    [p EXCEPT !.tag = None,
              !.track = IF tag \in TrackTags THEN [@ EXCEPT ![tag] = FALSE] ELSE @]

\* InvoiceParser.is_prev
is_prev(p, tags) ==
    \A i \in 1..Len(tags) : ~(Some(tags[i]) = p.tag \/ ~p.track[tags[i]])

\* InvoiceParser.free
free(p, tags, if_has) ==
    IF \E i \in 1..Len(if_has) : if_has[i] \notin DOMAIN p.result
    THEN p
    ELSE [p EXCEPT !.track =
             [k \in TrackTags |->
                 IF \E i \in 1..Len(tags) : tags[i] = k THEN FALSE ELSE @[k]]]

\* self.result[key] = value
SetResult(p, key, value) ==
    [p EXCEPT !.result = (key :> value) @@ p.result]

\* handle_data that captures the date from dhemi only
handle_data_NoDemi(p, data) ==
    IF is_prev(p, <<"infnfe">>) THEN
        IF is_prev(p, <<"ide">>) THEN
            LET q == IF p.tag = Some("nnf") THEN SetResult(p, "number", data)
                     ELSE IF p.tag = Some("dhemi") THEN SetResult(p, "date", Slice0(data, 10))
                     ELSE p
            IN  free(q, <<"ide">>, <<"number", "date">>)
        ELSE IF is_prev(p, <<"dest">>) THEN
            IF p.tag = Some("xnome")
            THEN free(SetResult(p, "customer", data), <<"dest">>, <<>>)
            ELSE p
        ELSE IF is_prev(p, <<"det", "prod">>) THEN
            IF p.tag = Some("cfop")
            THEN free(SetResult(p, "operation", data), <<"det", "prod">>, <<>>)
            ELSE p
        ELSE IF is_prev(p, <<"total", "icmstot">>) THEN
            LET q == IF p.tag = Some("vnf") THEN SetResult(p, "total", data)
                     ELSE IF p.tag = Some("vicms") THEN SetResult(p, "tax", data)
                     ELSE p
            IN  free(q, <<"total", "icmstot">>, <<"total", "tax">>)
        ELSE p
    ELSE p

\* handle_data that keeps the first operation code it captured
handle_data_FirstCfop(p, data) ==
    IF is_prev(p, <<"infnfe">>) THEN
        IF is_prev(p, <<"ide">>) THEN
            LET q == IF p.tag = Some("nnf") THEN SetResult(p, "number", data)
                     ELSE IF p.tag = Some("dhemi") THEN SetResult(p, "date", Slice0(data, 10))
                     ELSE IF p.tag = Some("demi") THEN SetResult(p, "date", data)
                     ELSE p
            IN  free(q, <<"ide">>, <<"number", "date">>)
        ELSE IF is_prev(p, <<"dest">>) THEN
            IF p.tag = Some("xnome")
            THEN free(SetResult(p, "customer", data), <<"dest">>, <<>>)
            ELSE p
        ELSE IF is_prev(p, <<"det", "prod">>) THEN
            IF p.tag = Some("cfop")
            THEN free(IF "operation" \in DOMAIN p.result THEN p
                      ELSE SetResult(p, "operation", data), <<"det", "prod">>, <<>>)
            ELSE p
        ELSE IF is_prev(p, <<"total", "icmstot">>) THEN
            LET q == IF p.tag = Some("vnf") THEN SetResult(p, "total", data)
                     ELSE IF p.tag = Some("vicms") THEN SetResult(p, "tax", data)
                     ELSE p
            IN  free(q, <<"total", "icmstot">>, <<"total", "tax">>)
        ELSE p
    ELSE p

\* InvoiceParser.handle_data
handle_data(p, data) ==
    IF is_prev(p, <<"infnfe">>) THEN
        IF is_prev(p, <<"ide">>) THEN
            LET q == IF p.tag = Some("nnf") THEN SetResult(p, "number", data)
                     ELSE IF p.tag = Some("dhemi") THEN SetResult(p, "date", Slice0(data, 10))
                     ELSE IF p.tag = Some("demi") THEN SetResult(p, "date", data)
                     ELSE p
            IN  free(q, <<"ide">>, <<"number", "date">>)
        ELSE IF is_prev(p, <<"dest">>) THEN
            IF p.tag = Some("xnome")
            THEN free(SetResult(p, "customer", data), <<"dest">>, <<>>)
            ELSE p
        ELSE IF is_prev(p, <<"det", "prod">>) THEN
            IF p.tag = Some("cfop")
            THEN free(SetResult(p, "operation", data), <<"det", "prod">>, <<>>)
            ELSE p
        ELSE IF is_prev(p, <<"total", "icmstot">>) THEN
            LET q == IF p.tag = Some("vnf") THEN SetResult(p, "total", data)
                     ELSE IF p.tag = Some("vicms") THEN SetResult(p, "tax", data)
                     ELSE p
            IN  free(q, <<"total", "icmstot">>, <<"total", "tax">>)
        ELSE p
    ELSE p

\* HTMLParser.feed over a tokenised document: one handler call per event,
\* <<"start", tag>>, <<"end", tag>> or <<"data", text>>
\* (a handler's result is evaluated before the next event is taken)
RECURSIVE feedFrom(_, _, _)
feedFrom(p, events, i) ==
    IF i > Len(events) THEN p
    ELSE LET e == events[i]
             q == CASE e[1] = "start" -> handle_starttag(p, e[2])
                    [] e[1] = "end"   -> handle_endtag(p, e[2])
                    [] e[1] = "data"  -> handle_data(p, e[2])
         IN  IF q = q THEN feedFrom(q, events, i + 1) ELSE q

feed(p, events) == feedFrom(p, events, 1)

ParsedFields == <<"number", "date", "customer", "operation", "total", "tax">>

\* parse that fills a missing slot with the empty text
parse_Lenient(file) ==
    LET r == feed(reset, file).result
        get(key) == IF key \in DOMAIN r THEN r[key] ELSE <<>>
    IN  [ok |-> TRUE,
         pix |-> [number    |-> get("number"),
                  date      |-> Slice0(get("date"), 10),
                  customer  |-> get("customer"),
                  operation |-> get("operation"),
                  total     |-> get("total"),
                  tax       |-> get("tax")]]

\* InvoiceParser.parse: the ParsedInvoice, or the KeyError of a missing slot
parse(file) ==
    LET r == feed(reset, file).result
    IN  IF \E i \in 1..Len(ParsedFields) : ParsedFields[i] \notin DOMAIN r
        THEN [ok |-> FALSE, pix |-> <<>>]
        ELSE [ok |-> TRUE,
              pix |-> [number    |-> r["number"],
                       date      |-> Slice0(r["date"], 10),
                       customer  |-> r["customer"],
                       operation |-> r["operation"],
                       total     |-> r["total"],
                       tax       |-> r["tax"]]]

(***************************************************************************)
(* Invoice (sales/models.py)                                               *)
(***************************************************************************)
SALE == "S"
SKIPPED == "K"
CANCELED == "C"
DENIED == "D"
SALE_RETURN == "U"
PURCHASE_RETURN == "P"
RMA == "R"

NATURE_CHOICES == {SALE, SKIPPED, CANCELED, DENIED, SALE_RETURN, PURCHASE_RETURN, RMA}

\* Invoice(number=number, date=date): the other fields take their defaults
Invoice(number, date) ==
    [number   |-> number,
     date     |-> date,
     customer |-> None,
     nature   |-> "",
     total    |-> None,
     tax      |-> None,
     tickets  |-> None,
     comment  |-> None]

\* validate_comma_separated_integer_list: ^\d+(?:,\d+)*\Z
validate_comma_separated_integer_list(s) ==
    /\ Len(s) > 0
    /\ \A i \in 1..Len(s) : IsDigit(s[i]) \/ s[i] = ","
    /\ IsDigit(s[1])
    /\ IsDigit(s[Len(s)])
    /\ \A i \in 1..(Len(s) - 1) : ~(s[i] = "," /\ s[i + 1] = ",")

\* A nullable text field left empty (None or ''), which blank=True accepts
IsBlank(f) == f = None \/ f = Some(<<>>)

\* Model.clean_fields over the Invoice fields
clean_fields(rec) ==
    /\ rec.number >= 0
    /\ rec.nature \in NATURE_CHOICES
    /\ IsBlank(rec.customer) \/ Len(rec.customer[1]) <= 60
    /\ IsBlank(rec.tickets)
         \/ (Len(rec.tickets[1]) <= 100 /\ validate_comma_separated_integer_list(rec.tickets[1]))
    /\ IsBlank(rec.comment) \/ Len(rec.comment[1]) <= 100

\* Model.validate_unique for an instance being added: the primary key is free
validate_unique(rec, table) ==
    \A old \in table : old.number # rec.number

\* v.full_clean(): TRUE when no ValidationError is raised
full_clean(rec, table) ==
    clean_fields(rec) /\ validate_unique(rec, table)

\* v.save(): the row keyed by number
save(rec, table) ==
    {old \in table : old.number # rec.number} \cup {rec}

(***************************************************************************)
(* Conversions used by import_invoices                                     *)
(***************************************************************************)
\* int(text): Some(value), or None for a ValueError
int(s) == IF AllDigits(s) THEN Some(DigitsValue(s)) ELSE None

\* The index of the first "." of s, 0 when there is none
DotAt(s) ==
    IF \E i \in 1..Len(s) : s[i] = "."
    THEN CHOOSE i \in 1..Len(s) : s[i] = "." /\ \A j \in 1..(i - 1) : s[j] # "."
    ELSE 0

\* float(text) for decimals of at most two places, in hundredths:
\* Some(value), or None for a ValueError
float(s) ==
    LET d == DotAt(s)
        ip == IF d = 0 THEN s ELSE SubSeq(s, 1, d - 1)
        fp == IF d = 0 THEN <<>> ELSE SubSeq(s, d + 1, Len(s))
    IN  IF /\ Len(ip) + Len(fp) > 0
           /\ \A i \in 1..Len(ip) : IsDigit(ip[i])
           /\ \A i \in 1..Len(fp) : IsDigit(fp[i])
           /\ Len(fp) <= 2
        THEN Some(100 * DigitsValue(ip)
                  + (IF Len(fp) = 0 THEN 0
                     ELSE IF Len(fp) = 1 THEN 10 * DigitsValue(fp)
                     ELSE DigitsValue(fp)))
        ELSE None

Lower == <<"a", "b", "c", "d", "e", "f", "g", "h", "i", "j", "k", "l", "m",
           "n", "o", "p", "q", "r", "s", "t", "u", "v", "w", "x", "y", "z">>
Upper == <<"A", "B", "C", "D", "E", "F", "G", "H", "I", "J", "K", "L", "M",
           "N", "O", "P", "Q", "R", "S", "T", "U", "V", "W", "X", "Y", "Z">>

\* str.upper
upper(s) ==
    [i \in 1..Len(s) |->
        IF \E j \in 1..26 : Lower[j] = s[i]
        THEN Upper[CHOOSE j \in 1..26 : Lower[j] = s[i]]
        ELSE s[i]]

\* The decimal digits of n, zero-padded to width w
RECURSIVE Padded(_, _)
Padded(n, w) ==
    IF w = 0 THEN <<>> ELSE Append(Padded(n \div 10, w - 1), Digits[(n % 10) + 1])

\* date.isoformat() of <<year, month, day>>
isoformat(d) == Padded(d[1], 4) \o <<"-">> \o Padded(d[2], 2) \o <<"-">> \o Padded(d[3], 2)

(***************************************************************************)
(* CODE_NATURE                                                             *)
(***************************************************************************)
Code(a, b, c, d) == <<Digits[a + 1], Digits[b + 1], Digits[c + 1], Digits[d + 1]>>

CODE_NATURE ==
    (Code(1, 2, 0, 2) :> SALE_RETURN) @@
    (Code(1, 4, 1, 1) :> SALE_RETURN) @@
    (Code(2, 2, 0, 2) :> SALE_RETURN) @@
    (Code(2, 4, 1, 1) :> SALE_RETURN) @@
    (Code(5, 9, 2, 9) :> SALE) @@
    (Code(6, 9, 2, 9) :> SALE) @@
    (Code(5, 2, 0, 2) :> PURCHASE_RETURN) @@
    (Code(5, 4, 1, 1) :> PURCHASE_RETURN) @@
    (Code(6, 2, 0, 2) :> PURCHASE_RETURN) @@
    (Code(6, 4, 1, 1) :> PURCHASE_RETURN) @@
    (Code(6, 9, 1, 5) :> RMA) @@
    (Code(6, 9, 4, 9) :> RMA)

(***************************************************************************)
(* The external source: what the query of lines 133-142 can deliver        *)
(***************************************************************************)
\* The number of rows one run fetches
MaxRows == 3

\* Texts of the documents
TS_SAME == <<"2", "0", "2", "0", "-", "0", "1", "-", "0", "5", "T", "1", "0", ":", "3", "0", ":", "0", "0", "-", "0", "3", ":", "0", "0">>
D_SAME == <<"2", "0", "2", "0", "-", "0", "1", "-", "0", "5">>
TS_NEXT == <<"2", "0", "2", "0", "-", "0", "1", "-", "0", "6", "T", "1", "0", ":", "3", "0", ":", "0", "0", "-", "0", "3", ":", "0", "0">>
T_35 == <<"3", "5">>
T_999 == <<"9", ".", "9", "9">>
T_EMIT == <<"E", "m", "i", "t", "e", "n", "t", "e">>
T_ACME == <<"A", "c", "m", "e", " ", "l", "t", "d", "a">>
T_1000 == <<"1", "0", "0", "0", ".", "0", "0">>
T_180 == <<"1", "8", "0", ".", "0", "0">>
T_OLD == <<"o", "l", "d">>

\* NUMERO values of the period
Numbers == {1, 2}

NumberText(n) == <<Digits[n + 1]>>

\* DATA_EMISSAO of the rows, and the same day and the next in a document
RowDate == <<2020, 1, 5>>
SameDayStamp == TS_SAME
SameDayPlain == D_SAME
NextDayStamp == TS_NEXT

\* A fiscal document as the events HTMLParser makes of it
Document(nnf, dateTag, dateText, xnome, cfop, vnf, vicms) ==
    << <<"start", "nfe">>, <<"start", "infnfe">>,
       <<"start", "ide">>,
       <<"start", "cuf">>, <<"data", T_35>>, <<"end", "cuf">>,
       <<"start", "nnf">>, <<"data", nnf>>, <<"end", "nnf">>,
       <<"start", dateTag>>, <<"data", dateText>>, <<"end", dateTag>>,
       <<"end", "ide">>,
       <<"start", "emit">>,
       <<"start", "xnome">>, <<"data", T_EMIT>>, <<"end", "xnome">>,
       <<"end", "emit">> >>
    \o xnome \o
    << <<"start", "det">>, <<"start", "prod">>,
       <<"start", "cfop">>, <<"data", cfop>>, <<"end", "cfop">>,
       <<"end", "prod">>,
       <<"start", "imposto">>,
       <<"start", "vicms">>, <<"data", T_999>>, <<"end", "vicms">>,
       <<"end", "imposto">>,
       <<"end", "det">>,
       <<"start", "total">>, <<"start", "icmstot">>,
       <<"start", "vicms">>, <<"data", vicms>>, <<"end", "vicms">>,
       <<"start", "vnf">>, <<"data", vnf>>, <<"end", "vnf">>,
       <<"end", "icmstot">>, <<"end", "total">>,
       <<"end", "infnfe">>, <<"end", "nfe">> >>

\* The destination section of a document
Dest(name) ==
    << <<"start", "dest">>,
       <<"start", "xnome">>, <<"data", name>>, <<"end", "xnome">>,
       <<"end", "dest">> >>

DocKinds == {"sale", "return", "unknown", "wrongnum", "wrongdate", "broken"}

\* <tag>text</tag>, and <tag>body</tag>
Leaf(tag, text) == << <<"start", tag>>, <<"data", text>>, <<"end", tag>> >>
Section(tag, body) == << <<"start", tag>> >> \o body \o << <<"end", tag>> >>

\* The sections of a fiscal document, with the leaves given
Ide(fields) == Section("ide", Leaf("cuf", T_35) \o fields)
Emit == Section("emit", Leaf("xnome", T_EMIT))
Det(prod) ==
    Section("det", Section("prod", prod) \o Section("imposto", Leaf("vicms", T_999)))
Total(fields) == Section("total", Section("icmstot", fields))
Nfe(body) == Section("nfe", Section("infnfe", body))

\* The leaves of the sound Sale document numbered n
SaleIde(n) == Leaf("nnf", NumberText(n)) \o Leaf("dhemi", SameDayStamp)
SaleDet == Det(Leaf("cfop", Code(5, 9, 2, 9)))
ReturnDet == Det(Leaf("cfop", Code(1, 2, 0, 2)))
SaleTotal == Total(Leaf("vicms", T_180) \o Leaf("vnf", T_1000))

\* Documents that lack one field, carry several det sections, or are not
\* well nested
FaultKinds == {"no_number", "no_date", "no_operation", "no_total", "no_tax"}
TwinKinds == {"sale_demi"}
ManyDetKinds == {"two_det", "two_det_rev"}
UnbalancedKinds == {"stray_end", "unclosed"}
AllKinds == DocKinds \cup FaultKinds \cup TwinKinds \cup ManyDetKinds \cup UnbalancedKinds

\* The XML column, by kind of document, for the row numbered n
Bytes(kind, n) ==
    CASE kind = "sale" ->
           Document(NumberText(n), "dhemi", SameDayStamp, Dest(T_ACME), Code(5, 9, 2, 9), T_1000, T_180)
      [] kind = "return" ->
           Document(NumberText(n), "demi", SameDayPlain, Dest(T_ACME), Code(1, 2, 0, 2), T_1000, T_180)
      [] kind = "unknown" ->
           Document(NumberText(n), "dhemi", SameDayStamp, Dest(T_ACME), Code(9, 9, 9, 9), T_1000, T_180)
      [] kind = "wrongnum" ->
           Document(NumberText(n + 1), "dhemi", SameDayStamp, Dest(T_ACME), Code(5, 9, 2, 9), T_1000, T_180)
      [] kind = "wrongdate" ->
           Document(NumberText(n), "dhemi", NextDayStamp, Dest(T_ACME), Code(5, 9, 2, 9), T_1000, T_180)
      [] kind = "broken" ->
           Document(NumberText(n), "dhemi", SameDayStamp, <<>>, Code(5, 9, 2, 9), T_1000, T_180)
      [] kind = "sale_demi" ->
           Document(NumberText(n), "demi", SameDayPlain, Dest(T_ACME), Code(5, 9, 2, 9), T_1000, T_180)
      [] kind = "no_number" ->
           Nfe(Ide(Leaf("dhemi", SameDayStamp)) \o Emit \o Dest(T_ACME) \o SaleDet \o SaleTotal)
      [] kind = "no_date" ->
           Nfe(Ide(Leaf("nnf", NumberText(n))) \o Emit \o Dest(T_ACME) \o SaleDet \o SaleTotal)
      [] kind = "no_operation" ->
           Nfe(Ide(SaleIde(n)) \o Emit \o Dest(T_ACME) \o Det(Leaf("cprod", T_35)) \o SaleTotal)
      [] kind = "no_total" ->
           Nfe(Ide(SaleIde(n)) \o Emit \o Dest(T_ACME) \o SaleDet \o Total(Leaf("vicms", T_180)))
      [] kind = "no_tax" ->
           Nfe(Ide(SaleIde(n)) \o Emit \o Dest(T_ACME) \o SaleDet \o Total(Leaf("vnf", T_1000)))
      [] kind = "two_det" ->
           Nfe(Ide(SaleIde(n)) \o Emit \o Dest(T_ACME) \o SaleDet \o ReturnDet \o SaleTotal)
      [] kind = "two_det_rev" ->
           Nfe(Ide(SaleIde(n)) \o Emit \o Dest(T_ACME) \o ReturnDet \o SaleDet \o SaleTotal)
      [] kind = "stray_end" ->
           Nfe(Ide(SaleIde(n)) \o Emit \o << <<"end", "det">> >> \o Dest(T_ACME)
               \o SaleDet \o SaleTotal)
      [] kind = "unclosed" ->
           Nfe(Ide(SaleIde(n)) \o Emit \o << <<"start", "dest">> >> \o Leaf("xnome", T_ACME)
               \o SaleDet \o SaleTotal)

\* The values of the XML column: the document of kind k stored for NUMERO n
XmlColumn == [kind : AllKinds, n : Numbers]

\* io.BytesIO(xml) as HTMLParser tokenises it
BytesIO(xml) == Bytes(xml.kind, xml.n)

\* InvoiceParser.parse on each value of the XML column (tabulated once)
ParsedColumn == [xml \in XmlColumn |-> parse(BytesIO(xml))] @@ <<>>

\* InvoiceParser.parse(io.BytesIO(xml))
ParseXml(xml) == ParsedColumn[xml]

\* NUMERO_IMP values: NULL, the empty string, two ticket numbers
Tickets == {None, Some(<<>>), Some(<<"5">>), Some(<<"7">>)}

\* The rows the join can deliver; the XML column names its document.  Rows
\* that are canceled or not accepted carry a sound or a broken document.
SourceRows ==
    {r \in [number : {NumberText(n) : n \in Numbers},
            date : {RowDate},
            xml : [kind : DocKinds, n : Numbers],
            status : {"100", "110"},
            cancel_status : {"", "135"},
            ticket : Tickets] :
        /\ r.xml.n = DigitsValue(r.number)
        /\ (r.cancel_status # "" \/ r.status # "100") => r.xml.kind \in {"sale", "broken"}}

\* Single rows whose document may be of any kind, faulty ones included
DocRows ==
    {r \in [number : {NumberText(n) : n \in Numbers},
            date : {RowDate},
            xml : XmlColumn,
            status : {"100", "110"},
            cancel_status : {"", "135"},
            ticket : Tickets] :
        r.xml.n = DigitsValue(r.number)}

\* The columns of VENDAS_NFE in a row
VendasColumns(r) == <<r.number, r.date, r.xml, r.status, r.cancel_status>>

\* SELECT DISTINCT over the join on NUMERO: no row comes twice, and rows of
\* one NUMERO differ in NUMERO_IMP only
CanFollow(rows, r) ==
    \A i \in 1..Len(rows) :
        /\ rows[i] # r
        /\ rows[i].number = r.number => VendasColumns(rows[i]) = VendasColumns(r)

\* An invoice stored before the run (its nature is one no import assigns)
Stored(n) ==
    [Invoice(n, <<2019, 12, 30>>) EXCEPT !.nature = SKIPPED, !.comment = Some(T_OLD)]

\* The Invoice table before the run
InitialSinks == {{}, {Stored(1)}, {Stored(3)}}

(***************************************************************************)
(* import_invoices: the body of the loop over v_result                     *)
(***************************************************************************)
\* What one pass of the loop body yields: the exception raised ("" when
\* none), the in-progress invoice, the table, the records saved, and whether
\* a record was created for the row and whether its document was parsed
Out(err, cv, table, saved, started, parsed) ==
    [err |-> err, v |-> cv, table |-> table, saved |-> saved,
     started |-> started, parsed |-> parsed]

\* Python truthiness of a status string
Truthy(s) == s # ""

\* FillInvoice with a default nature for a code missing from the table
FillInvoice_Default(nv, pix, ticket) ==
    LET v2 == [nv EXCEPT !.nature = IF pix.operation \in DOMAIN CODE_NATURE
                                    THEN CODE_NATURE[pix.operation] ELSE SKIPPED,
                         !.customer = Some(upper(pix.customer)),
                         !.total = float(pix.total),
                         !.tax = float(pix.tax)]
    IN  [err |-> "",
         v   |-> IF v2.nature = SALE THEN [v2 EXCEPT !.tickets = ticket] ELSE v2]

\* FillInvoice with total and tax taken from each other's field
FillInvoice_Swapped(nv, pix, ticket) ==
    IF pix.operation \notin DOMAIN CODE_NATURE THEN [err |-> "KeyError(CODE_NATURE)", v |-> nv]
    ELSE LET v2 == [nv EXCEPT !.nature = CODE_NATURE[pix.operation],
                              !.customer = Some(upper(pix.customer)),
                              !.total = float(pix.tax),
                              !.tax = float(pix.total)]
         IN  [err |-> "",
              v   |-> IF v2.nature = SALE THEN [v2 EXCEPT !.tickets = ticket] ELSE v2]

\* FillInvoice that keeps the ticket whatever the nature
FillInvoice_TicketAlways(nv, pix, ticket) ==
    IF pix.operation \notin DOMAIN CODE_NATURE THEN [err |-> "KeyError(CODE_NATURE)", v |-> nv]
    ELSE LET v2 == [nv EXCEPT !.nature = CODE_NATURE[pix.operation],
                              !.customer = Some(upper(pix.customer)),
                              !.total = float(pix.total),
                              !.tax = float(pix.tax)]
         IN  [err |-> "", v |-> [v2 EXCEPT !.tickets = ticket]]

\* Lines 177-185: fill the invoice with the parsed document's fields
FillInvoice(nv, pix, ticket) ==
    IF pix.operation \notin DOMAIN CODE_NATURE THEN [err |-> "KeyError(CODE_NATURE)", v |-> nv]
    ELSE LET v1 == [nv EXCEPT !.nature = CODE_NATURE[pix.operation],
                              !.customer = Some(upper(pix.customer))]
         IN  IF float(pix.total) = None THEN [err |-> "ValueError(total)", v |-> v1]
             ELSE IF float(pix.tax) = None
                  THEN [err |-> "ValueError(tax)", v |-> [v1 EXCEPT !.total = float(pix.total)]]
             ELSE LET v2 == [v1 EXCEPT !.total = float(pix.total), !.tax = float(pix.tax)]
                  IN  [err |-> "",
                       v   |-> IF v2.nature = SALE THEN [v2 EXCEPT !.tickets = ticket] ELSE v2]

\* CheckedParse without the two assertions
CheckedParse_NoAsserts(number, date, res) ==
    IF ~res.ok THEN [err |-> "KeyError(result)", pix |-> <<>>]
    ELSE [err |-> "", pix |-> res.pix]

\* Lines 173-175: the outcome res of InvoiceParser.parse and the assertions
\* that the document agrees with the row
CheckedParse(number, date, res) ==
    IF ~res.ok THEN [err |-> "KeyError(result)", pix |-> <<>>]
    ELSE IF int(res.pix.number) = None THEN [err |-> "ValueError(number)", pix |-> res.pix]
    ELSE IF int(res.pix.number)[1] # number THEN [err |-> "AssertionError(number)", pix |-> res.pix]
    ELSE IF res.pix.date # isoformat(date) THEN [err |-> "AssertionError(date)", pix |-> res.pix]
    ELSE [err |-> "", pix |-> res.pix]

\* NewInvoice testing the receipt-status before the cancel-status
NewInvoice_StatusFirst(number, row) ==
    LET nv == Invoice(number, row.date)
    IN  IF row.status # "100"
        THEN [err |-> "", v |-> [nv EXCEPT !.nature = DENIED], parsed |-> FALSE]
        ELSE IF Truthy(row.cancel_status)
        THEN [err |-> "", v |-> [nv EXCEPT !.nature = CANCELED], parsed |-> FALSE]
        ELSE LET chk == CheckedParse(number, row.date, ParseXml(row.xml))
             IN  IF chk.err # "" THEN [err |-> chk.err, v |-> nv, parsed |-> TRUE]
                 ELSE LET fill == FillInvoice(nv, chk.pix, row.ticket)
                      IN  [err |-> fill.err, v |-> fill.v, parsed |-> TRUE]

\* NewInvoice without the receipt-status test: a row not accepted is parsed
NewInvoice_NoDenied(number, row) ==
    LET nv == Invoice(number, row.date)
    IN  IF Truthy(row.cancel_status)
        THEN [err |-> "", v |-> [nv EXCEPT !.nature = CANCELED], parsed |-> FALSE]
        ELSE LET chk == CheckedParse(number, row.date, ParseXml(row.xml))
             IN  IF chk.err # "" THEN [err |-> chk.err, v |-> nv, parsed |-> TRUE]
                 ELSE LET fill == FillInvoice(nv, chk.pix, row.ticket)
                      IN  [err |-> fill.err, v |-> fill.v, parsed |-> TRUE]

\* Lines 163-185: create the invoice of a row and settle its nature
NewInvoice(number, row) ==
    LET nv == Invoice(number, row.date)
    IN  IF Truthy(row.cancel_status)
        THEN [err |-> "", v |-> [nv EXCEPT !.nature = CANCELED], parsed |-> FALSE]
        ELSE IF row.status # "100"
        THEN [err |-> "", v |-> [nv EXCEPT !.nature = DENIED], parsed |-> FALSE]
        ELSE LET chk == CheckedParse(number, row.date, ParseXml(row.xml))
             IN  IF chk.err # "" THEN [err |-> chk.err, v |-> nv, parsed |-> TRUE]
                 ELSE LET fill == FillInvoice(nv, chk.pix, row.ticket)
                      IN  [err |-> fill.err, v |-> fill.v, parsed |-> TRUE]

\* Lines 154-155: a repeated row adds its ticket to a sale invoice
MergeTicket(inv, ticket) ==
    IF inv.nature = SALE
    THEN IF inv.tickets = None \/ ticket = None
         THEN [err |-> "TypeError", v |-> inv]
         ELSE [err |-> "", v |-> [inv EXCEPT !.tickets = Some(@[1] \o <<",">> \o ticket[1])]]
    ELSE [err |-> "", v |-> inv]

\* v.full_clean(); v.save()
Flush(inv, table) ==
    IF full_clean(inv, table)
    THEN [err |-> "", table |-> save(inv, table), saved |-> <<inv>>]
    ELSE [err |-> "ValidationError", table |-> table, saved |-> <<>>]

\* Lines 146-185: one pass of the loop body for a row
LoopBody(cv, table, row) ==
    IF int(row.number) = None
    THEN Out("ValueError(txt_number)", cv, table, <<>>, FALSE, FALSE)
    ELSE LET number == int(row.number)[1]
         IN  IF cv # None /\ cv[1].number = number
             THEN LET m == MergeTicket(cv[1], row.ticket)
                  IN  Out(m.err, Some(m.v), table, <<>>, FALSE, FALSE)
             ELSE LET fl == IF cv # None THEN Flush(cv[1], table)
                            ELSE [err |-> "", table |-> table, saved |-> <<>>]
                  IN  IF fl.err # ""
                      THEN Out(fl.err, cv, table, <<>>, FALSE, FALSE)
                      ELSE LET n == NewInvoice(number, row)
                           IN  Out(n.err, Some(n.v), fl.table, fl.saved, TRUE, n.parsed)

\* LastSave that leaves the in-progress invoice unsaved
LastSave_Skipped(cv, table) ==
    [err |-> "", table |-> table, saved |-> <<>>]

\* Lines 187-189: the save after the loop; v is still None when no row came
LastSave(cv, table) ==
    IF cv = None
    THEN [err |-> "AttributeError", table |-> table, saved |-> <<>>]
    ELSE Flush(cv[1], table)

\* atomic_exit that keeps what was written before the exception
atomic_exit_NoRollback(err, table, table0) == table

\* Leaving transaction.atomic(): commit, or roll back when an exception passes
atomic_exit(err, table, table0) ==
    IF err = "" THEN table ELSE table0

\* Lines 146-189: the loop over the rows from row i on, then the last save
RECURSIVE RunFrom(_, _, _, _)
RunFrom(cv, table, rows, i) ==
    IF i > Len(rows)
    THEN LET l == LastSave(cv, table) IN [err |-> l.err, table |-> l.table]
    ELSE LET o == LoopBody(cv, table, rows[i])
         IN  IF o.err # "" THEN [err |-> o.err, table |-> table]
             ELSE RunFrom(o.v, o.table, rows, i + 1)

\* import_invoices as a function of the rows the query delivers and of the
\* Invoice table: the exception that ends the run ("" when none) and the
\* table it leaves
import_invoices(rows, table) ==
    LET r == RunFrom(None, table, rows, 1)
    IN  [err |-> r.err, table |-> atomic_exit(r.err, r.table, table)]

(***************************************************************************)
(* import_invoices as a state machine                                      *)
(***************************************************************************)
ParserIdle ==
    /\ parser = reset
    /\ open = {}
    /\ cur = None
    /\ wrote = [event |-> "reset", slots |-> {}, n |-> 0]

\* No document is under study
DocIdle ==
    /\ docRow = None
    /\ parsedDoc = None

Init ==
    /\ pc = "idle"
    /\ v = None
    /\ sink \in InitialSinks
    /\ sink0 = sink
    /\ fetched = <<>>
    /\ trace = <<>>
    /\ savedRecs = <<>>
    /\ error = ""
    /\ returned = None
    /\ ParserIdle
    /\ DocIdle

\* The number of invoices the run has created so far
Created == Len(savedRecs) + (IF v = None THEN 0 ELSE 1)

\* Lines 132-145: connect, execute the query, enter transaction.atomic()
Begin ==
    /\ pc = "idle"
    /\ pc' = "loop"
    /\ v' = None
    /\ sink0' = sink
    /\ UNCHANGED <<sink, fetched, trace, savedRecs, error, returned>>
    /\ UNCHANGED <<parserVars, docVars>>

\* Lines 146-185: the cursor delivers row r and the loop body runs on it;
\* an exception leaves the atomic block and ends the run
Fetch(r) ==
    /\ pc = "loop"
    /\ Len(fetched) < MaxRows
    /\ CanFollow(fetched, r)
    /\ \E out \in {LoopBody(v, sink, r)} :
           /\ fetched' = Append(fetched, r)
           /\ trace' = Append(trace, [started |-> out.started, parsed |-> out.parsed,
                                      ord |-> IF out.started THEN Created + 1 ELSE Created,
                                      err |-> out.err])
           /\ v' = out.v
           /\ savedRecs' = savedRecs \o out.saved
           /\ error' = out.err
           /\ pc' = IF out.err = "" THEN "loop" ELSE "failed"
           /\ sink' = IF out.err = "" THEN out.table
                      ELSE atomic_exit(out.err, out.table, sink0)
    /\ UNCHANGED <<sink0, returned>>
    /\ UNCHANGED <<parserVars, docVars>>

\* Lines 126-189: import_invoices has no return statement, so whatever was
\* saved the caller receives None
ReturnValue(saved) == None

\* Lines 187-189: the cursor is exhausted, the last invoice is saved and
\* the atomic block is left
Finish ==
    /\ pc = "loop"
    /\ \E out \in {LastSave(v, sink)} :
           /\ savedRecs' = savedRecs \o out.saved
           /\ error' = out.err
           /\ pc' = IF out.err = "" THEN "done" ELSE "failed"
           /\ sink' = atomic_exit(out.err, out.table, sink0)
           /\ returned' = IF out.err = "" THEN Some(ReturnValue(savedRecs \o out.saved))
                          ELSE None
    /\ UNCHANGED <<v, sink0, fetched, trace>>
    /\ UNCHANGED <<parserVars, docVars>>

Next ==
    \/ Begin
    \/ \E r \in SourceRows : Fetch(r)
    \/ Finish

Spec == Init /\ [][Next]_vars

(***************************************************************************)
(* InvoiceParser.parse on one document, and a run over the one row that     *)
(* carries it                                                               *)
(***************************************************************************)
DocInit ==
    /\ pc = "idle"
    /\ v = None
    /\ sink \in InitialSinks
    /\ sink0 = sink
    /\ fetched = <<>>
    /\ trace = <<>>
    /\ savedRecs = <<>>
    /\ error = ""
    /\ returned = None
    /\ ParserIdle
    /\ docRow \in {Some(r) : r \in DocRows}
    /\ parsedDoc = None

\* pix = InvoiceParser.parse(io.BytesIO(xml)), on its own
ParseDoc ==
    /\ parsedDoc = None
    /\ parsedDoc' = Some(parse(BytesIO(docRow[1].xml)))
    /\ UNCHANGED <<importVars, parserVars, docRow>>

\* The only row of the result set is the one under study
FetchDoc ==
    /\ fetched = <<>>
    /\ Fetch(docRow[1])

DocNext == ParseDoc \/ Begin \/ FetchDoc \/ Finish

DocSpec == DocInit /\ [][DocNext]_vars

(***************************************************************************)
(* Properties of import_invoices                                           *)
(***************************************************************************)
Finished == pc \in {"done", "failed"}

\* The rows for which the loop body created an invoice
StartedRows == {i \in 1..Len(trace) : trace[i].started}

\* The invoice created for started row i, as saved or as it stands now: the
\* k-th invoice created is the k-th one saved, or the in-progress one
RecordOf(i) ==
    IF trace[i].ord <= Len(savedRecs) THEN savedRecs[trace[i].ord] ELSE v[1]

\* The invoice created for started row i was passed to save()
WasSaved(i) == trace[i].ord <= Len(savedRecs)

\* C1: a run is all-or-nothing against the sink: a run ended by an exception
\* leaves the sink as it was before the run, whatever was saved for earlier
\* rows, and only a run that processed every row without error changes it.
C1_AllOrNothing ==
    /\ pc = "failed" => sink = sink0 /\ error # ""
    /\ (Finished /\ sink # sink0) =>
           /\ pc = "done"
           /\ error = ""
           /\ \A i \in 1..Len(trace) : trace[i].err = ""

C1_Witness ==
    /\ pc = "failed"
    /\ error \in {"KeyError(result)", "KeyError(CODE_NATURE)",
                  "AssertionError(number)", "AssertionError(date)", "ValidationError"}
    /\ Len(savedRecs) >= 1
    /\ sink = sink0

\* C2: a run over zero rows finishes without an error and leaves the sink
\* unchanged.
C2_EmptyRunSucceeds ==
    (Finished /\ fetched = <<>>) => (pc = "done" /\ error = "" /\ sink = sink0)

\* C3: a row that starts a record and has a nonempty cancel-status gets
\* nature Canceled whatever its receipt-status and document are, its document
\* is never parsed, and the record's total, tax and tickets stay unset.
C3_Canceled ==
    \A i \in StartedRows :
        fetched[i].cancel_status # "" =>
            /\ ~trace[i].parsed
            /\ trace[i].err = ""
            /\ RecordOf(i).number = DigitsValue(fetched[i].number)
            /\ RecordOf(i).nature = CANCELED
            /\ RecordOf(i).total = None
            /\ RecordOf(i).tax = None
            /\ RecordOf(i).tickets = None

C3_Witness ==
    /\ pc = "done"
    /\ Len(fetched) = 3
    /\ StartedRows = {1, 3}
    /\ fetched[1].cancel_status # ""
    /\ fetched[1].status = "110"
    /\ fetched[1].xml.kind = "broken"
    /\ fetched[2].ticket = Some(<<"7">>)
    /\ savedRecs[1].nature = CANCELED

\* C4: a row that starts a record, is not canceled and whose receipt-status
\* is not '100' gets nature Denied without its document being parsed, total
\* and tax stay unset; Denied is never given to a row with a cancel-status.
C4_Denied ==
    \A i \in StartedRows :
        /\ (fetched[i].cancel_status = "" /\ fetched[i].status # "100") =>
               /\ ~trace[i].parsed
               /\ trace[i].err = ""
               /\ RecordOf(i).nature = DENIED
               /\ RecordOf(i).total = None
               /\ RecordOf(i).tax = None
        /\ RecordOf(i).nature = DENIED => fetched[i].cancel_status = ""

C4_Witness ==
    /\ pc = "done"
    /\ Len(fetched) = 2
    /\ StartedRows = {1, 2}
    /\ fetched[1].cancel_status = ""
    /\ fetched[1].status = "110"
    /\ fetched[1].xml.kind = "broken"
    /\ savedRecs[1].nature = DENIED
    /\ fetched[2].cancel_status # ""
    /\ fetched[2].status = "110"
    /\ savedRecs[2].nature = CANCELED

\* The document of row i parses and disagrees with the row on number or date
Mismatch(i) ==
    LET res == ParseXml(fetched[i].xml)
    IN  /\ res.ok
        /\ \/ int(res.pix.number) # int(fetched[i].number)
           \/ res.pix.date # isoformat(fetched[i].date)

\* C5: when the parsed document's number or date differs from the row's,
\* the run aborts at that row, no record of the row is saved and the sink
\* keeps its state of before the run.
C5_MismatchAborts ==
    \A i \in 1..Len(trace) :
        (trace[i].parsed /\ Mismatch(i)) =>
            /\ i = Len(trace)
            /\ pc = "failed"
            /\ error \in {"AssertionError(number)", "AssertionError(date)"}
            /\ ~WasSaved(i)
            /\ sink = sink0

C5_Witness ==
    /\ pc = "failed"
    /\ Len(trace) = 2
    /\ trace[2].parsed
    /\ Mismatch(2)
    /\ Len(savedRecs) = 1
    /\ sink0 = {Stored(3)}

\* The code table as documented
DocumentedNature ==
    [c \in {Code(1, 2, 0, 2), Code(1, 4, 1, 1), Code(2, 2, 0, 2), Code(2, 4, 1, 1)} |-> "U"] @@
    [c \in {Code(5, 9, 2, 9), Code(6, 9, 2, 9)} |-> "S"] @@
    [c \in {Code(5, 2, 0, 2), Code(5, 4, 1, 1), Code(6, 2, 0, 2), Code(6, 4, 1, 1)} |-> "P"] @@
    [c \in {Code(6, 9, 1, 5), Code(6, 9, 4, 9)} |-> "R"]

\* The operation code of the document of row i, as it was written
WrittenCode(i) ==
    CASE fetched[i].xml.kind = "return"  -> Code(1, 2, 0, 2)
      [] fetched[i].xml.kind = "unknown" -> Code(9, 9, 9, 9)
      [] OTHER                           -> Code(5, 9, 2, 9)

\* C6: classification covers the documented code table, and a parsed row
\* whose operation code is outside the table aborts the run: no record with
\* a defaulted nature is ever saved.
C6_UnknownCodeAborts ==
    /\ \A c \in DOMAIN DocumentedNature :
           c \in DOMAIN CODE_NATURE /\ CODE_NATURE[c] = DocumentedNature[c]
    /\ \A i \in 1..Len(trace) :
           trace[i].parsed =>
               /\ (trace[i].err = "" /\ WasSaved(i)) =>
                      /\ WrittenCode(i) \in DOMAIN DocumentedNature
                      /\ RecordOf(i).nature = DocumentedNature[WrittenCode(i)]
               /\ (WrittenCode(i) \notin DOMAIN DocumentedNature) =>
                      /\ i = Len(trace)
                      /\ pc = "failed"
                      /\ error = "KeyError(CODE_NATURE)"
                      /\ ~WasSaved(i)

C6_Witness ==
    /\ pc = "failed"
    /\ error = "KeyError(CODE_NATURE)"
    /\ Len(trace) = 2
    /\ fetched[2].xml.kind = "unknown"
    /\ Len(savedRecs) = 1
    /\ savedRecs[1].nature = SALE_RETURN

\* The document numbers the cursor delivered
DeliveredNumbers == {DigitsValue(fetched[i].number) : i \in 1..Len(fetched)}

\* C7: after a successful run exactly one record was saved for each distinct
\* number delivered: rows sharing a number are collapsed, no number is saved
\* twice or dropped, and the last in-progress record is flushed.
C7_OneRecordPerNumber ==
    pc = "done" =>
        /\ Len(savedRecs) = Cardinality(DeliveredNumbers)
        /\ {savedRecs[k].number : k \in 1..Len(savedRecs)} = DeliveredNumbers
        /\ \A j, k \in 1..Len(savedRecs) : savedRecs[j].number = savedRecs[k].number => j = k
        /\ v # None
        /\ savedRecs[Len(savedRecs)] = v[1]
        /\ \A n \in DeliveredNumbers : Cardinality({rec \in sink : rec.number = n}) = 1

C7_Witness ==
    /\ pc = "done"
    /\ Len(fetched) = 3
    /\ fetched[1].number = fetched[2].number
    /\ fetched[3].number # fetched[2].number
    /\ Len(savedRecs) = 2

\* The rows merged into the k-th invoice created
RowsOf(k) ==
    {i \in 1..Len(trace) :
        trace[i].ord = k /\ (trace[i].started \/ DigitsValue(fetched[i].number) = RecordOf(i).number)}

\* The nonempty ticket references of rows 1..n that belong to the k-th
\* invoice, each once, in the order of the rows
RECURSIVE RefsUpTo(_, _)
RefsUpTo(k, n) ==
    IF n = 0 THEN <<>>
    ELSE LET before == RefsUpTo(k, n - 1)
             t == fetched[n].ticket
         IN  IF /\ n \in RowsOf(k)
                /\ t # None
                /\ t # Some(<<>>)
                /\ \A j \in 1..Len(before) : before[j] # t[1]
             THEN Append(before, t[1])
             ELSE before

\* The references joined by commas
RECURSIVE Joined(_)
Joined(refs) ==
    IF Len(refs) = 0 THEN <<>>
    ELSE IF Len(refs) = 1 THEN refs[1]
    ELSE refs[1] \o <<",">> \o Joined(Tail(refs))

\* C8: the tickets of a saved Sale record are the distinct nonempty ticket
\* references of its rows, in query order, joined by commas; an empty or
\* null reference is left out and does not make the run fail.
C8_TicketsFiltered ==
    /\ \A k \in 1..Len(savedRecs) :
           (savedRecs[k].nature = SALE /\ RefsUpTo(k, Len(fetched)) # <<>>) =>
               savedRecs[k].tickets = Some(Joined(RefsUpTo(k, Len(fetched))))
    /\ error # "TypeError"
    /\ ~(error = "ValidationError" /\ v[1].nature = SALE /\ ~clean_fields(v[1]))

\* C9: a row that is parsed and passes the checks yields a record whose
\* nature is the table's nature for the document's operation code and whose
\* total and tax are the document's (5929, 1000.00, 180.00 gives Sale,
\* 1000.00, 180.00), here in hundredths.
C9_RoundTrip ==
    \A i \in StartedRows :
        (trace[i].parsed /\ trace[i].err = "") =>
            /\ fetched[i].xml.kind \in {"sale", "return"}
            /\ fetched[i].xml.kind = "sale" => RecordOf(i).nature = SALE
            /\ fetched[i].xml.kind = "return" => RecordOf(i).nature = SALE_RETURN
            /\ RecordOf(i).nature = CODE_NATURE[WrittenCode(i)]
            /\ RecordOf(i).total = Some(100000)
            /\ RecordOf(i).tax = Some(18000)

C9_Witness ==
    /\ pc = "done"
    /\ Len(savedRecs) = 2
    /\ fetched[1].xml.kind = "sale"
    /\ savedRecs[1].nature = SALE
    /\ savedRecs[1].total = Some(100000)
    /\ savedRecs[1].tax = Some(18000)
    /\ savedRecs[2].nature = SALE_RETURN
    /\ sink = sink0 \cup {savedRecs[1], savedRecs[2]}

(***************************************************************************)
(* The parser driven event by event (HTMLParser.feed calls one handler per *)
(* start tag, end tag and run of text).                                    *)
(***************************************************************************)
\* The number of events fed to one parser
MaxEvents == 10

Slots == {"number", "date", "customer", "operation", "total", "tax"}

LeafTags == {"nnf", "dhemi", "demi", "xnome", "cfop", "vnf", "vicms"}

\* Tags fed to the parser: the tracked sections, the leaf fields, one other
EventTags == TrackTags \cup LeafTags \cup {"x"}

\* Text fed to the parser
EventData == {<<"a">>, <<"b">>}

\* The slots whose value differs between results r and s
Changed(r, s) ==
    {k \in Slots : k \in DOMAIN s /\ (k \notin DOMAIN r \/ r[k] # s[k])}

ImportIdle ==
    /\ pc = "idle"
    /\ v = None
    /\ sink = {}
    /\ sink0 = {}
    /\ fetched = <<>>
    /\ trace = <<>>
    /\ savedRecs = <<>>
    /\ error = ""
    /\ returned = None

ParserInit ==
    /\ ImportIdle
    /\ DocIdle
    /\ parser = reset
    /\ open = {}
    /\ cur = None
    /\ wrote = [event |-> "reset", slots |-> {}, n |-> 0]

StartTag(t) ==
    /\ parser' = handle_starttag(parser, t)
    /\ open' = IF t \in TrackTags THEN open \cup {t} ELSE open
    /\ cur' = Some(t)
    /\ wrote.n < MaxEvents
    /\ wrote' = [event |-> "start", slots |-> {}, n |-> wrote.n + 1]
    /\ UNCHANGED <<importVars, docVars>>

EndTag(t) ==
    /\ parser' = handle_endtag(parser, t)
    /\ open' = open \ {t}
    /\ cur' = None
    /\ wrote.n < MaxEvents
    /\ wrote' = [event |-> "end", slots |-> {}, n |-> wrote.n + 1]
    /\ UNCHANGED <<importVars, docVars>>

Data(d) ==
    /\ parser' = handle_data(parser, d)
    /\ wrote.n < MaxEvents
    /\ wrote' = [event |-> "data", slots |-> Changed(parser.result, parser'.result), n |-> wrote.n + 1]
    /\ UNCHANGED <<open, cur>>
    /\ UNCHANGED <<importVars, docVars>>

ParserNext ==
    \/ \E t \in EventTags : StartTag(t)
    \/ \E t \in EventTags : EndTag(t)
    \/ \E d \in EventData : Data(d)

ParserSpec == ParserInit /\ [][ParserNext]_vars

\* The leaf fields and the sections of each result slot
LeafOf(k) ==
    CASE k = "number"    -> {"nnf"}
      [] k = "date"      -> {"dhemi", "demi"}
      [] k = "customer"  -> {"xnome"}
      [] k = "operation" -> {"cfop"}
      [] k = "total"     -> {"vnf"}
      [] k = "tax"       -> {"vicms"}

SectionsOf(k) ==
    CASE k \in {"number", "date"} -> {"infnfe", "ide"}
      [] k = "customer"           -> {"infnfe", "dest"}
      [] k = "operation"          -> {"infnfe", "det", "prod"}
      [] k \in {"total", "tax"}   -> {"infnfe", "total", "icmstot"}

\* C10: a result slot is written only by a data event directly enclosed by
\* the slot's leaf field while all of the slot's sections are open, so a
\* same-named field outside its section never overwrites the slot.
C10_PathScoped ==
    \A k \in wrote.slots :
        /\ wrote.event = "data"
        /\ \E l \in LeafOf(k) : cur = Some(l)
        /\ SectionsOf(k) \subseteq open

\* A leaf field outside its section comes after the slot was captured in
\* scope, and leaves it alone
C10_Witness ==
    /\ wrote.event = "data"
    /\ wrote.slots = {}
    /\ cur = Some("xnome")
    /\ "dest" \notin open
    /\ "infnfe" \in open
    /\ "customer" \in DOMAIN parser.result

(***************************************************************************)
(* Claims about InvoiceParser.parse on whole documents (DocSpec)            *)
(***************************************************************************)
\* The document under study, and what parse made of it
DocKind == docRow[1].xml.kind
DocParsed == docRow # None /\ parsedDoc # None

\* The document that differs from the one under study in the date field only
TwinOf(xml) == [xml EXCEPT !.kind = IF @ = "sale" THEN "sale_demi" ELSE "sale"]

\* The text of the date field of a document of the two variants
DateFieldText(kind) == IF kind = "sale" THEN SameDayStamp ELSE SameDayPlain

\* C11: of two valid documents that differ only in the date field carried
\* (dhEmi with a timestamp, or dEmi with the plain date of the same day),
\* parse succeeds on each and returns the same ParsedInvoice, whose date is
\* the first 10 characters of the field.
C11_EitherDateField ==
    (DocParsed /\ DocKind \in {"sale", "sale_demi"}) =>
        /\ parsedDoc[1].ok
        /\ parsedDoc[1].pix.date = Slice0(DateFieldText(DocKind), 10)
        /\ parsedDoc[1].pix.date = D_SAME
        /\ parse(BytesIO(TwinOf(docRow[1].xml))) = parsedDoc[1]

C11_Witness ==
    /\ DocParsed
    /\ DocKind = "sale_demi"
    /\ parsedDoc[1].ok
    /\ parsedDoc[1].pix.date = D_SAME

\* The slots of parser.result after feeding each value of the XML column
CapturedColumn == [xml \in XmlColumn |-> DOMAIN feed(reset, BytesIO(xml)).result] @@ <<>>

\* Some required field of the document under study was not captured
MissingField ==
    \E i \in 1..Len(ParsedFields) : ParsedFields[i] \notin CapturedColumn[docRow[1].xml]

\* The run fetched the row under study and handed its document to parse
DocRowParsed == docRow # None /\ fetched # <<>> /\ trace[1].parsed

\* C13: when one of the six required fields (number, date, customer,
\* operation, total, tax) was not captured from the document, parse fails
\* and returns no ParsedInvoice, and the run that called it aborts: it ends
\* with that error, saves nothing and leaves the table as it was.
C13_MissingFieldAborts ==
    /\ (DocParsed /\ MissingField) => ~parsedDoc[1].ok
    /\ (DocRowParsed /\ MissingField) =>
           /\ pc = "failed"
           /\ error = "KeyError(result)"
           /\ savedRecs = <<>>
           /\ sink = sink0

C13_Witness ==
    /\ DocParsed
    /\ DocRowParsed
    /\ DocKind = "no_tax"
    /\ MissingField
    /\ ~parsedDoc[1].ok
    /\ pc = "failed"

\* The events from i on are well nested below the open tags of the stack:
\* each end tag closes the innermost open tag and no tag stays open
RECURSIVE Nested(_, _, _)
Nested(events, i, stack) ==
    IF i > Len(events) THEN stack = <<>>
    ELSE LET e == events[i]
         IN  CASE e[1] = "start" -> Nested(events, i + 1, <<e[2]>> \o stack)
               [] e[1] = "end"   -> /\ stack # <<>>
                                    /\ stack[1] = e[2]
                                    /\ Nested(events, i + 1, Tail(stack))
               [] e[1] = "data"  -> Nested(events, i + 1, stack)

\* Whether each value of the XML column is well nested
WellNestedColumn == [xml \in XmlColumn |-> Nested(BytesIO(xml), 1, <<>>)] @@ <<>>

\* C14: a document with unbalanced nesting (an end tag without its start
\* tag, or a section left unclosed) makes parse fail; parse never returns a
\* ParsedInvoice for such a document.
C14_MalformedRejected ==
    (DocParsed /\ ~WellNestedColumn[docRow[1].xml]) => ~parsedDoc[1].ok

\* The texts of the cfop elements among events 1..n, in document order
RECURSIVE CfopsUpTo(_, _)
CfopsUpTo(events, n) ==
    IF n < 2 THEN <<>>
    ELSE IF events[n][1] = "data" /\ events[n - 1] = <<"start", "cfop">>
         THEN Append(CfopsUpTo(events, n - 1), events[n][2])
         ELSE CfopsUpTo(events, n - 1)

\* The operation codes each value of the XML column carries
CfopColumn == [xml \in XmlColumn |-> CfopsUpTo(BytesIO(xml), Len(BytesIO(xml)))] @@ <<>>

\* The parser with det and prod open, after free() cleared both flags
FreedDet ==
    free(handle_starttag(handle_starttag(reset, "det"), "prod"), <<"det", "prod">>, <<>>)

\* C20: a flag that free() cleared is set again by the next start tag of its
\* section, so of a document with several det/prod sections, each with a
\* CFOP, parse returns the CFOP of the last section and not of the first.
C20_LastCfopWins ==
    /\ ~FreedDet.track["det"] /\ ~FreedDet.track["prod"]
    /\ handle_starttag(FreedDet, "det").track["det"]
    /\ handle_starttag(FreedDet, "prod").track["prod"]
    /\ (DocParsed /\ Len(CfopColumn[docRow[1].xml]) > 1) =>
           LET cfops == CfopColumn[docRow[1].xml]
           IN  /\ parsedDoc[1].ok
               /\ parsedDoc[1].pix.operation = cfops[Len(cfops)]
               /\ parsedDoc[1].pix.operation # cfops[1]

C20_Witness ==
    /\ DocParsed
    /\ DocKind = "two_det"
    /\ CfopColumn[docRow[1].xml] = <<Code(5, 9, 2, 9), Code(1, 2, 0, 2)>>
    /\ parsedDoc[1].ok
    /\ parsedDoc[1].pix.operation = Code(1, 2, 0, 2)

(***************************************************************************)
(* Claims about runs against a table that already holds records            *)
(***************************************************************************)
\* C12: import is idempotent, keyed by number: a run whose rows carry numbers
\* the table already holds succeeds and overwrites them, so importing the
\* rows of a successful run once more succeeds and leaves the table as the
\* first run left it.
C12_Idempotent ==
    pc = "done" =>
        LET again == import_invoices(fetched, sink)
        IN  /\ again.err = ""
            /\ again.table = sink

\* An invoice whose tickets are set has the nature Sale
TicketsOnlyOnSale(inv) == inv.tickets # None => inv.nature = SALE

\* C15: in every state of a run, the in-progress record, every record passed
\* to save and every record of the table has tickets set only if its nature
\* is Sale: no first row and no repeated row sets or extends the tickets of
\* a Canceled, Denied, SaleReturn, PurchaseReturn or RMA record.
C15_TicketsOnlyOnSale ==
    /\ v # None => TicketsOnlyOnSale(v[1])
    /\ \A k \in 1..Len(savedRecs) : TicketsOnlyOnSale(savedRecs[k])
    /\ \A inv \in sink : TicketsOnlyOnSale(inv)

\* A return whose first row and repeated row both carry a ticket is saved
\* without tickets
C15_Witness ==
    /\ pc = "done"
    /\ Len(fetched) >= 2
    /\ fetched[1].number = fetched[2].number
    /\ fetched[1].ticket = Some(<<"5">>)
    /\ fetched[2].ticket = Some(<<"7">>)
    /\ savedRecs # <<>>
    /\ savedRecs[1].nature = SALE_RETURN
    /\ savedRecs[1].tickets = None
    /\ savedRecs[1] \in sink

\* C16: within a run the records are saved in ascending order of number: the
\* numbers passed to save are strictly increasing, whatever result set the
\* query delivers.
C16_AscendingSaves ==
    \A j, k \in 1..Len(savedRecs) :
        j < k => savedRecs[j].number < savedRecs[k].number

\* C17: a saved Sale record whose rows carry no nonempty ticket reference
\* (the only reference is empty or NULL) has its tickets unset, and not the
\* empty string.
C17_NoTicketsUnset ==
    \A k \in 1..Len(savedRecs) :
        (savedRecs[k].nature = SALE /\ RefsUpTo(k, Len(fetched)) = <<>>) =>
            savedRecs[k].tickets = None

\* C18: a successful run reports to its caller the count of records written,
\* the number of records it saved.
C18_ReportsCount ==
    pc = "done" => returned = Some(Some(Len(savedRecs)))

\* The step fetches a row whose number is that of the in-progress record
RepeatedRowStep ==
    /\ pc = "loop"
    /\ v # None
    /\ fetched' = Append(fetched, fetched'[Len(fetched')])
    /\ int(fetched'[Len(fetched')].number) = Some(v[1].number)

\* C19: a row whose number is that of the in-progress record is not
\* reprocessed: its document is not parsed, no record is created or saved,
\* the table is untouched and the record's number, date, nature, customer,
\* total and tax stay as they are; the row's only effect is that its ticket
\* reference is appended to the tickets of a Sale record, and for any other
\* nature the row changes nothing.
C19_RepeatedRowOnlyMerges ==
    [][RepeatedRowStep =>
          LET row == fetched'[Len(fetched')]
              old == v[1]
              new == v'[1]
          IN  /\ pc' = "loop"
              /\ error' = ""
              /\ ~trace'[Len(trace')].parsed
              /\ ~trace'[Len(trace')].started
              /\ savedRecs' = savedRecs
              /\ sink' = sink
              /\ new = [old EXCEPT !.tickets = new.tickets]
              /\ old.nature # SALE => new = old
              /\ (old.nature = SALE /\ old.tickets # None /\ row.ticket # None) =>
                     new.tickets = Some(old.tickets[1] \o <<",">> \o row.ticket[1])]_vars

====
